---------------------------- MODULE Spec2Model ----------------------------
(***************************************************************************)
(* The OpenCT reader backend of OpenSC (src/libopensc/reader-openct.c).    *)
(*                                                                         *)
(* The driver is single threaded: every operation of the operation table  *)
(* is one atomic action.  The OpenCT client library (ct_reader_info,       *)
(* ct_reader_connect, ct_card_request, ...) is an external collaborator;   *)
(* each of its answers is an input the action draws from a small set.      *)
(* The registry holds every reader openct_reader_init creates; the         *)
(* connection, slot and lock state is kept for one reader of the registry  *)
(* (readers share no driver state: each has its own driver_data).          *)
(***************************************************************************)
EXTENDS Integers, Sequences, FiniteSets

(***************************************************************************)
(* Program constants                                                       *)
(***************************************************************************)
PREALLOCATE == 5
sizeof_buf == 254

\* OpenSC error codes (opensc/errors.h)
SC_NO_ERROR == 0
SC_ERROR_READER == -1100
SC_ERROR_CARD_NOT_PRESENT == -1104
SC_ERROR_TRANSMIT_FAILED == -1107
SC_ERROR_KEYPAD_TIMEOUT == -1108
SC_ERROR_KEYPAD_CANCELLED == -1109
SC_ERROR_READER_DETACHED == -1114
SC_ERROR_READER_REATTACHED == -1115
SC_ERROR_UNKNOWN_DATA_RECEIVED == -1213
SC_ERROR_INVALID_ARGUMENTS == -1300
SC_ERROR_BUFFER_TOO_SMALL == -1303
SC_ERROR_OUT_OF_MEMORY == -1404
SC_ERROR_TOO_MANY_OBJECTS == -1405

\* OpenCT status codes (openct/error.h)
IFD_ERROR_GENERIC == -1
IFD_ERROR_USER_TIMEOUT == -12
IFD_ERROR_USER_ABORT == -13
IFD_ERROR_NOT_CONNECTED == -103

\* card status bits (openct/ifd.h) and slot flags / capabilities (opensc.h)
IFD_CARD_PRESENT == 1
IFD_CARD_STATUS_CHANGED == 2
SC_SLOT_CARD_PRESENT == 1
SC_SLOT_CAP_DISPLAY == 1
SC_SLOT_CAP_PIN_PAD == 2

\* PIN encodings (opensc.h); GLP is the one the driver does not support
SC_PIN_ENCODING_ASCII == 0
SC_PIN_ENCODING_BCD == 1
SC_PIN_ENCODING_GLP == 2

(***************************************************************************)
(* Bounds of the model                                                     *)
(***************************************************************************)
OPENCT_MAX_READERS == 6   \* reader indices the daemon is asked for (16 in openct.h)
MaxHandles == 2           \* transport handles ct_reader_connect hands out in a run
MaxAtr == 1               \* longest ATR ct_card_request returns
MaxRecv == 1              \* largest receive buffer a caller passes to transmit

NULL == 0

Indices == 0 .. (OPENCT_MAX_READERS - 1)

VARIABLES
    phase,      \* "loaded" (operation table filled), "ready" (after init)
    ct_info,    \* what ct_reader_info answered at init: index -> ct_info_t
    add_rc,     \* return value of openct_add_reader, per index it was called on
    registry,   \* readers added to the context: index -> reader
    drv_data,   \* reader->drv_data of the reader in use is allocated
    h,          \* data->h: the stored transport handle, NULL when unconnected
    nextHandle, \* handles the transport has handed out so far
    live,       \* handles opened by ct_reader_connect and not yet closed
    flags,      \* slot->flags
    atr_len,    \* slot->atr_len
    excl_lock,  \* slot_data->excl_lock: 0, or the connection it was obtained on
    op,         \* the operation called last
    req,        \* its arguments
    ret,        \* its return value
    calls,      \* the transport calls it made, in order
    recvsize,   \* *recvsize after transmit
    sw          \* apdu->sw1, apdu->sw2 of the template after perform_verify

vars == << phase, ct_info, add_rc, registry, drv_data, h, nextHandle, live,
           flags, atr_len, excl_lock, op, req, ret, calls, recvsize, sw >>

regvars == << ct_info, add_rc, registry >>
slotvars == << flags, atr_len, excl_lock >>
connvars == << h, nextHandle, live >>

\* arguments of a call that takes none of interest, and a template's
\* status word before the card answered
NoReq == [recv_capacity |-> 0, hasApdu |-> FALSE, lc |-> 0, encoding |-> 0]
NoSw == << 0, 0 >>

\* what the caller of an operation observes: the operation, its arguments,
\* its return value and the transport calls it made
Returns(o, rq, r, cs) ==
    /\ op' = o
    /\ req' = rq
    /\ ret' = r
    /\ calls' = cs

(***************************************************************************)
(* Reader Registry                                                         *)
(***************************************************************************)
\* ct_info_t values the daemon may report for a reader
InfoSet ==
    { [ct_name |-> "KOBIL KAAN", ct_slots |-> 2, ct_display |-> 1, ct_keypad |-> 1] }

\* outcome of the allocations and of _sc_add_reader inside openct_add_reader
AllocSet == {"ok", "nomem", "full"}

\* every table of reader metadata: a function from the indices the daemon knows
DaemonTables == UNION { [S -> InfoSet] : S \in SUBSET Indices }

\* the reader whose operations are exercised: the first index
FirstReader == CHOOSE i \in Indices : \A j \in Indices : i <= j

\* tables and allocator behaviour that vary for the first reader only
ProbeTables == { t \in DaemonTables : DOMAIN t \subseteq {FirstReader} }
ProbeAllocs == { a \in [Indices -> AllocSet] :
                    \A i \in Indices \ {FirstReader} : a[i] = "ok" }

NoInfo ==
    [ct_name |-> "OpenCT reader (detached)", ct_slots |-> 1,
     ct_display |-> 0, ct_keypad |-> 0]

SlotCapabilities(info) ==
    (IF info.ct_display # 0 THEN SC_SLOT_CAP_DISPLAY ELSE 0)
    + (IF info.ct_keypad # 0 THEN SC_SLOT_CAP_PIN_PAD ELSE 0)

\* openct_add_reader(ctx, num, info): hasInfo is info != NULL.
\* Yields the return code and the reader added to the context, if any.
openct_add_reader(num, hasInfo, info, alloc) ==
    IF alloc = "nomem"
    THEN [rc |-> SC_ERROR_OUT_OF_MEMORY, added |-> FALSE, reader |-> NoInfo]
    ELSE LET data_info == IF hasInfo THEN info ELSE NoInfo
             reader == [name |-> data_info.ct_name,
                        slot_count |-> data_info.ct_slots,
                        capabilities |-> SlotCapabilities(data_info),
                        num |-> num]
         IN  IF alloc = "full"
             THEN [rc |-> SC_ERROR_TOO_MANY_OBJECTS, added |-> FALSE,
                   reader |-> reader]
             ELSE [rc |-> 0, added |-> TRUE, reader |-> reader]

\* mutant: the pre-allocation test is off by one
AddCalled_OffByOne(infos, i) == i \in DOMAIN infos \/ i <= PREALLOCATE

\* the indices openct_reader_init calls openct_add_reader for
AddCalled(infos, i) == i \in DOMAIN infos \/ i < PREALLOCATE

\* openct_reader_init: infos is what ct_reader_info answers for each index
\* (absent from the domain: a negative answer), allocs how each
\* openct_add_reader call fares.  The framework calls it once, when the
\* driver is loaded (the callers below state phase = "loaded").
openct_reader_init(infos, allocs) ==
    /\ LET called == { i \in Indices : AddCalled(infos, i) }
           res == [i \in called |->
                     openct_add_reader(i, i \in DOMAIN infos,
                        IF i \in DOMAIN infos THEN infos[i] ELSE NoInfo,
                        allocs[i])]
           added == { i \in called : res[i].added }
       IN  /\ ct_info' = infos
           /\ add_rc' = [i \in called |-> res[i].rc]
           /\ registry' = [i \in added |->
                             [name |-> res[i].reader.name,
                              slot_count |-> res[i].reader.slot_count,
                              capabilities |-> res[i].reader.capabilities,
                              num |-> res[i].reader.num]]
           /\ drv_data' = (FirstReader \in added)
    /\ phase' = "ready"
    /\ Returns("init", NoReq, SC_NO_ERROR, << >>)
    /\ recvsize' = 0
    /\ sw' = NoSw
    /\ UNCHANGED << connvars, slotvars >>

(***************************************************************************)
(* The transport (OpenCT client library)                                   *)
(***************************************************************************)
\* negative status codes a transport primitive may answer
NegAnswers ==
    { IFD_ERROR_GENERIC, IFD_ERROR_USER_TIMEOUT, IFD_ERROR_USER_ABORT,
      IFD_ERROR_NOT_CONNECTED }

\* ct_reader_connect hands out a handle or refuses (NULL); the model stops
\* handing out handles after MaxHandles of them
ConnectAnswers == IF nextHandle < MaxHandles THEN {TRUE, FALSE} ELSE {FALSE}
\* ct_card_request: bytes of ATR, 0 for no data, or a negative status (the
\* driver tells no negative status of these two primitives from another)
RequestAnswers == {IFD_ERROR_GENERIC, IFD_ERROR_NOT_CONNECTED} \cup (0 .. MaxAtr)
\* ct_card_status: the return code and the status bits it stores
StatusAnswers == {IFD_ERROR_GENERIC, IFD_ERROR_NOT_CONNECTED} \cup {0}
StatusBits == 0 .. (IFD_CARD_PRESENT + IFD_CARD_STATUS_CHANGED)
\* ct_card_transact: bytes received (the transport may claim more than the
\* caller's capacity) or a negative status
TransactAnswers == NegAnswers \cup (0 .. (MaxRecv + 1))
\* ct_card_verify: bytes received or a negative status; the first two bytes
\* the card left in the response buffer
VerifyAnswers == NegAnswers \cup (0 .. 3)
SwSet == { << 144, 0 >>, << 99, 192 >> }
\* ct_card_lock, ct_card_unlock
LockAnswers == NegAnswers \cup {0}

\* one call of a transport primitive as the transport sees it
Call(fn, handle, len, enc, plen, rc) ==
    [fn |-> fn, h |-> handle, len |-> len, pin_encoding |-> enc,
     pin_length |-> plen, rc |-> rc]

ct_reader_disconnect(handle) == Call("ct_reader_disconnect", handle, 0, 0, 0, 0)

(***************************************************************************)
(* Error Translator                                                        *)
(***************************************************************************)
\* mutant: a status without a translation of its own is handed to the
\* caller as it is
openct_error_Raw(code) ==
    IF code >= 0 THEN code
    ELSE IF code = IFD_ERROR_USER_TIMEOUT THEN SC_ERROR_KEYPAD_TIMEOUT
    ELSE IF code = IFD_ERROR_USER_ABORT THEN SC_ERROR_KEYPAD_CANCELLED
    ELSE code

openct_error(code) ==
    IF code >= 0 THEN code
    ELSE IF code = IFD_ERROR_USER_TIMEOUT THEN SC_ERROR_KEYPAD_TIMEOUT
    ELSE IF code = IFD_ERROR_USER_ABORT THEN SC_ERROR_KEYPAD_CANCELLED
    ELSE SC_ERROR_READER

(***************************************************************************)
(* Connection Manager                                                      *)
(***************************************************************************)
\* The state of one connection manager step: the stored handle, the handles
\* handed out, the live handles, the slot's ATR length, the return value
\* and the transport calls made.
ConnState(hh, nh, lv, al, r, cs) ==
    [h |-> hh, nextHandle |-> nh, live |-> lv, atr_len |-> al, ret |-> r,
     calls |-> cs]

\* mutant: connect forgets to close the handle it replaces
openct_reader_connect_NoClose(conn_ok, req_rc) ==
    LET newh == nextHandle + 1
    IN  IF ~conn_ok
        THEN ConnState(NULL, nextHandle, live, atr_len,
                 SC_ERROR_CARD_NOT_PRESENT,
                 << Call("ct_reader_connect", NULL, 0, 0, 0, NULL) >>)
        ELSE LET cs == << Call("ct_reader_connect", NULL, 0, 0, 0, newh),
                          Call("ct_card_request", newh, 0, 0, 0, req_rc) >>
                 live2 == live \cup {newh}
             IN  IF req_rc < 0
                 THEN ConnState(newh, newh, live2, atr_len,
                          SC_ERROR_CARD_NOT_PRESENT, cs)
                 ELSE IF req_rc = 0
                 THEN ConnState(newh, newh, live2, atr_len, SC_ERROR_READER, cs)
                 ELSE ConnState(newh, newh, live2, req_rc, SC_NO_ERROR, cs)

\* mutant: a card request that returns no bytes counts as a connected card
openct_reader_connect_ZeroOk(conn_ok, req_rc) ==
    LET closed == IF h # NULL THEN << ct_reader_disconnect(h) >> ELSE << >>
        live1 == IF h # NULL THEN live \ {h} ELSE live
        newh == nextHandle + 1
    IN  IF ~conn_ok
        THEN ConnState(NULL, nextHandle, live1, atr_len,
                 SC_ERROR_CARD_NOT_PRESENT,
                 closed \o << Call("ct_reader_connect", NULL, 0, 0, 0, NULL) >>)
        ELSE LET cs == closed
                        \o << Call("ct_reader_connect", NULL, 0, 0, 0, newh),
                              Call("ct_card_request", newh, 0, 0, 0, req_rc) >>
                 live2 == live1 \cup {newh}
             IN  IF req_rc < 0
                 THEN ConnState(newh, newh, live2, atr_len,
                          SC_ERROR_CARD_NOT_PRESENT, cs)
                 ELSE ConnState(newh, newh, live2, req_rc, SC_NO_ERROR, cs)

\* openct_reader_connect: conn_ok is whether ct_reader_connect returns a
\* handle, req_rc what ct_card_request returns.
openct_reader_connect(conn_ok, req_rc) ==
    LET closed == IF h # NULL THEN << ct_reader_disconnect(h) >> ELSE << >>
        live1 == IF h # NULL THEN live \ {h} ELSE live
        newh == nextHandle + 1
    IN  IF ~conn_ok
        THEN ConnState(NULL, nextHandle, live1, atr_len,
                 SC_ERROR_CARD_NOT_PRESENT,
                 closed \o << Call("ct_reader_connect", NULL, 0, 0, 0, NULL) >>)
        ELSE LET cs == closed
                        \o << Call("ct_reader_connect", NULL, 0, 0, 0, newh),
                              Call("ct_card_request", newh, 0, 0, 0, req_rc) >>
                 live2 == live1 \cup {newh}
             IN  IF req_rc < 0
                 THEN ConnState(newh, newh, live2, atr_len,
                          SC_ERROR_CARD_NOT_PRESENT, cs)
                 ELSE IF req_rc = 0
                 THEN ConnState(newh, newh, live2, atr_len, SC_ERROR_READER, cs)
                 ELSE ConnState(newh, newh, live2, req_rc, SC_NO_ERROR, cs)

\* mutant: a successful re-link is reported as plain success
openct_reader_reconnect_PlainSuccess(conn_ok, req_rc) ==
    IF h # NULL
    THEN ConnState(h, nextHandle, live, atr_len, 0, << >>)
    ELSE LET c == openct_reader_connect(conn_ok, req_rc)
         IN  IF c.ret < 0
             THEN ConnState(c.h, c.nextHandle, c.live, c.atr_len,
                      SC_ERROR_READER_DETACHED, c.calls)
             ELSE ConnState(c.h, c.nextHandle, c.live, c.atr_len,
                      SC_NO_ERROR, c.calls)

\* mutant: the outcome of the connect attempt is dropped and the caller
\* carries on with its request
openct_reader_reconnect_IgnoreOutcome(conn_ok, req_rc) ==
    IF h # NULL
    THEN ConnState(h, nextHandle, live, atr_len, 0, << >>)
    ELSE LET c == openct_reader_connect(conn_ok, req_rc)
         IN  ConnState(c.h, c.nextHandle, c.live, c.atr_len,
                       SC_NO_ERROR, c.calls)

\* openct_reader_reconnect: the hotplug check of transmit, perform_verify
\* and lock.
openct_reader_reconnect(conn_ok, req_rc) ==
    IF h # NULL
    THEN ConnState(h, nextHandle, live, atr_len, 0, << >>)
    ELSE LET c == openct_reader_connect(conn_ok, req_rc)
         IN  IF c.ret < 0
             THEN ConnState(c.h, c.nextHandle, c.live, c.atr_len,
                      SC_ERROR_READER_DETACHED, c.calls)
             ELSE ConnState(c.h, c.nextHandle, c.live, c.atr_len,
                      SC_ERROR_READER_REATTACHED, c.calls)

\* the answers the hotplug check consumes: none while the handle is live
HotplugConnect == IF h # NULL THEN {FALSE} ELSE ConnectAnswers
HotplugRequest(conn_ok) == IF conn_ok THEN RequestAnswers ELSE {0}

\* a step that acts on a reader of the registry: the framework calls the
\* operations of a reader between init and release only (they dereference
\* reader->drv_data, which release clears, without a test)
InUse == phase = "ready" /\ drv_data

Connect ==
    /\ InUse
    /\ \E conn_ok \in ConnectAnswers :
         \E req_rc \in HotplugRequest(conn_ok) :
           LET c == openct_reader_connect(conn_ok, req_rc)
           IN  /\ h' = c.h
               /\ nextHandle' = c.nextHandle
               /\ live' = c.live
               /\ atr_len' = c.atr_len
               /\ Returns("connect", NoReq, c.ret, c.calls)
    /\ recvsize' = 0
    /\ sw' = NoSw
    /\ UNCHANGED << phase, regvars, drv_data, flags, excl_lock >>

\* mutant: disconnect closes the transport handle but keeps it stored
Disconnect_KeepHandle ==
    /\ InUse
    /\ h' = h
    /\ live' = IF h # NULL THEN live \ {h} ELSE live
    /\ Returns("disconnect", NoReq, SC_NO_ERROR,
               IF h # NULL THEN << ct_reader_disconnect(h) >> ELSE << >>)
    /\ recvsize' = 0
    /\ sw' = NoSw
    /\ UNCHANGED << phase, regvars, drv_data, nextHandle, slotvars >>

\* openct_reader_disconnect
Disconnect ==
    /\ InUse
    /\ h' = NULL
    /\ live' = IF h # NULL THEN live \ {h} ELSE live
    /\ Returns("disconnect", NoReq, SC_NO_ERROR,
               IF h # NULL THEN << ct_reader_disconnect(h) >> ELSE << >>)
    /\ recvsize' = 0
    /\ sw' = NoSw
    /\ UNCHANGED << phase, regvars, drv_data, nextHandle, slotvars >>

(***************************************************************************)
(* Slot Presence Detection                                                 *)
(***************************************************************************)
\* mutant: the "status changed" bit alone marks a card as present
PresenceFlags_ChangedCounts(status) ==
    IF status # 0 THEN SC_SLOT_CARD_PRESENT ELSE 0

\* slot->flags after a successful status query
PresenceFlags(status) ==
    IF (status % (2 * IFD_CARD_PRESENT)) \div IFD_CARD_PRESENT = 1
    THEN SC_SLOT_CARD_PRESENT
    ELSE 0

\* openct_reader_detect_card_presence: an unconnected reader asks the
\* transport for a handle (and for nothing else) before the status query.
DetectPresence ==
    /\ InUse
    /\ \E conn_ok \in HotplugConnect :
         LET newh == nextHandle + 1
             opened == IF h = NULL
                       THEN << Call("ct_reader_connect", NULL, 0, 0, 0,
                                    IF conn_ok THEN newh ELSE NULL) >>
                       ELSE << >>
         IN  IF h = NULL /\ ~conn_ok
             THEN /\ flags' = 0
                  /\ Returns("detect_presence", NoReq, 0, opened)
                  /\ UNCHANGED connvars
             ELSE \E rc \in StatusAnswers :
                  \E status \in (IF rc < 0 THEN {0} ELSE StatusBits) :
                    LET hh == IF h = NULL THEN newh ELSE h
                        cs == opened \o
                              << Call("ct_card_status", hh, status, 0, 0, rc) >>
                    IN  /\ h' = hh
                        /\ nextHandle' = IF h = NULL THEN newh ELSE nextHandle
                        /\ live' = IF h = NULL THEN live \cup {newh} ELSE live
                        /\ IF rc < 0
                           THEN /\ flags' = 0
                                /\ Returns("detect_presence", NoReq,
                                           SC_ERROR_TRANSMIT_FAILED, cs)
                           ELSE /\ flags' = PresenceFlags(status)
                                /\ Returns("detect_presence", NoReq,
                                           PresenceFlags(status), cs)
    /\ recvsize' = 0
    /\ sw' = NoSw
    /\ UNCHANGED << phase, regvars, drv_data, atr_len, excl_lock >>

(***************************************************************************)
(* Transmission Engine                                                     *)
(***************************************************************************)
\* mutant: "not connected" is translated like any other status, without
\* the teardown
TransmitResult_NoTeardown(c, capacity, rc) ==
    [h |-> c.h, live |-> c.live,
     recvsize |-> IF rc >= 0 THEN rc ELSE capacity,
     ret |-> openct_error(rc),
     calls |-> << Call("ct_card_transact", c.h, capacity, 0, 0, rc) >>]

\* mutant: the received length is not stored
TransmitResult_KeepSize(c, capacity, rc) ==
    LET tx == Call("ct_card_transact", c.h, capacity, 0, 0, rc)
    IN  IF rc = IFD_ERROR_NOT_CONNECTED
        THEN [h |-> NULL, live |-> c.live \ {c.h}, recvsize |-> capacity,
              ret |-> SC_ERROR_READER_DETACHED,
              calls |-> << tx, ct_reader_disconnect(c.h) >>]
        ELSE [h |-> c.h, live |-> c.live, recvsize |-> capacity,
              ret |-> openct_error(rc), calls |-> << tx >>]

\* what openct_reader_transmit does with ct_card_transact's answer rc on the
\* connection c the hotplug check left: the new handle, live handles,
\* received length, return value and the calls after the transaction
TransmitResult(c, capacity, rc) ==
    LET tx == Call("ct_card_transact", c.h, capacity, 0, 0, rc)
    IN  IF rc = IFD_ERROR_NOT_CONNECTED
        THEN [h |-> NULL, live |-> c.live \ {c.h}, recvsize |-> capacity,
              ret |-> SC_ERROR_READER_DETACHED,
              calls |-> << tx, ct_reader_disconnect(c.h) >>]
        ELSE [h |-> c.h, live |-> c.live,
              recvsize |-> IF rc >= 0 THEN rc ELSE capacity,
              ret |-> openct_error(rc),
              calls |-> << tx >>]

\* openct_reader_transmit: capacity is *recvsize on entry
Transmit ==
    /\ InUse
    /\ \E capacity \in 0 .. MaxRecv :
       \E conn_ok \in HotplugConnect :
       \E req_rc \in HotplugRequest(conn_ok) :
         LET c == openct_reader_reconnect(conn_ok, req_rc)
             rq == [NoReq EXCEPT !.recv_capacity = capacity]
         IN  IF c.ret < 0
             THEN /\ h' = c.h
                  /\ nextHandle' = c.nextHandle
                  /\ live' = c.live
                  /\ atr_len' = c.atr_len
                  /\ recvsize' = capacity
                  /\ Returns("transmit", rq, c.ret, c.calls)
             ELSE \E rc \in TransactAnswers :
                    LET t == TransmitResult(c, capacity, rc)
                    IN  /\ h' = t.h
                        /\ nextHandle' = c.nextHandle
                        /\ live' = t.live
                        /\ atr_len' = c.atr_len
                        /\ recvsize' = t.recvsize
                        /\ Returns("transmit", rq, t.ret, c.calls \o t.calls)
    /\ sw' = NoSw
    /\ UNCHANGED << phase, regvars, drv_data, flags, excl_lock >>

(***************************************************************************)
(* PIN Verification Builder                                                *)
(***************************************************************************)
\* data field sizes of the templates: none, the largest that fits the frame
\* and the smallest that does not
LcSet == { 0, sizeof_buf - 5, sizeof_buf - 4 }
EncodingSet == { SC_PIN_ENCODING_ASCII, SC_PIN_ENCODING_BCD, SC_PIN_ENCODING_GLP }
\* pin1.min_length and pin1.max_length: a fixed-length and a ranged policy
PinPolicies == { << 4, 4 >>, << 4, 8 >> }

\* mutant: the bound check forgets the length byte
FrameOverflow_NoLengthByte(lc) == lc # 0 /\ 4 + lc > sizeof_buf

\* the data field overflows the command frame: j + 1 + len > sizeof(buf)
FrameOverflow(lc) == lc # 0 /\ 4 + 1 + lc > sizeof_buf

\* mutant: the frame is counted without its length byte
FrameLength_NoLengthByte(lc) == IF lc = 0 THEN 4 ELSE 4 + lc

\* j, the length of the frame built from the template
FrameLength(lc) == IF lc # 0 THEN 4 + 1 + lc ELSE 4

PinLength(min_length, max_length) ==
    IF min_length = max_length THEN min_length ELSE 0

\* mutant: every PIN encoding is passed on
SupportedEncoding_Any(encoding) == encoding >= 0

SupportedEncoding(encoding) ==
    encoding = SC_PIN_ENCODING_ASCII \/ encoding = SC_PIN_ENCODING_BCD

\* mutant: any answer of at least two bytes is taken as a status word
VerifyResult_AcceptLonger(hh, hasApdu, lc, encoding, min_length, max_length, rc, resp) ==
    IF ~hasApdu
    THEN [ret |-> SC_ERROR_INVALID_ARGUMENTS, sw |-> NoSw, calls |-> << >>]
    ELSE IF FrameOverflow(lc)
    THEN [ret |-> SC_ERROR_BUFFER_TOO_SMALL, sw |-> NoSw, calls |-> << >>]
    ELSE IF ~SupportedEncoding(encoding)
    THEN [ret |-> SC_ERROR_INVALID_ARGUMENTS, sw |-> NoSw, calls |-> << >>]
    ELSE LET cs == << Call("ct_card_verify", hh, FrameLength(lc), encoding,
                           PinLength(min_length, max_length), rc) >>
         IN  IF rc < 0
             THEN [ret |-> openct_error(rc), sw |-> NoSw, calls |-> cs]
             ELSE IF rc < 2
             THEN [ret |-> SC_ERROR_UNKNOWN_DATA_RECEIVED, sw |-> NoSw,
                   calls |-> cs]
             ELSE [ret |-> 0, sw |-> resp, calls |-> cs]

\* the part of openct_reader_perform_verify after the hotplug check, on the
\* live handle hh: the return value, the template's status word and the
\* calls made; rc and resp are ct_card_verify's answer
VerifyResult(hh, hasApdu, lc, encoding, min_length, max_length, rc, resp) ==
    IF ~hasApdu
    THEN [ret |-> SC_ERROR_INVALID_ARGUMENTS, sw |-> NoSw, calls |-> << >>]
    ELSE IF FrameOverflow(lc)
    THEN [ret |-> SC_ERROR_BUFFER_TOO_SMALL, sw |-> NoSw, calls |-> << >>]
    ELSE IF ~SupportedEncoding(encoding)
    THEN [ret |-> SC_ERROR_INVALID_ARGUMENTS, sw |-> NoSw, calls |-> << >>]
    ELSE LET cs == << Call("ct_card_verify", hh, FrameLength(lc), encoding,
                           PinLength(min_length, max_length), rc) >>
         IN  IF rc < 0
             THEN [ret |-> openct_error(rc), sw |-> NoSw, calls |-> cs]
             ELSE IF rc # 2
             THEN [ret |-> SC_ERROR_UNKNOWN_DATA_RECEIVED, sw |-> NoSw,
                   calls |-> cs]
             ELSE [ret |-> 0, sw |-> resp, calls |-> cs]

\* whether perform_verify gets as far as ct_card_verify
VerifyDispatched(hasApdu, lc, encoding) ==
    hasApdu /\ ~FrameOverflow(lc) /\ SupportedEncoding(encoding)

\* openct_reader_perform_verify
PerformVerify ==
    /\ InUse
    /\ \E hasApdu \in BOOLEAN :
       \E lc \in (IF hasApdu THEN LcSet ELSE {0}) :
       \E encoding \in EncodingSet :
       \E conn_ok \in HotplugConnect :
       \E req_rc \in HotplugRequest(conn_ok) :
         LET c == openct_reader_reconnect(conn_ok, req_rc)
             rq == [recv_capacity |-> 0, hasApdu |-> hasApdu, lc |-> lc,
                    encoding |-> encoding]
         IN  /\ h' = c.h
             /\ nextHandle' = c.nextHandle
             /\ live' = c.live
             /\ atr_len' = c.atr_len
             /\ IF c.ret < 0
                THEN /\ sw' = NoSw
                     /\ Returns("perform_verify", rq, c.ret, c.calls)
                ELSE IF ~VerifyDispatched(hasApdu, lc, encoding)
                THEN LET v == VerifyResult(c.h, hasApdu, lc, encoding, 0, 0, 0, NoSw)
                     IN  /\ sw' = v.sw
                         /\ Returns("perform_verify", rq, v.ret,
                                    c.calls \o v.calls)
                ELSE \E pin \in PinPolicies :
                     \E rc \in VerifyAnswers :
                     \E resp \in (IF rc = 2 THEN SwSet ELSE {NoSw}) :
                       LET v == VerifyResult(c.h, hasApdu, lc, encoding,
                                             pin[1], pin[2], rc, resp)
                       IN  /\ sw' = v.sw
                           /\ Returns("perform_verify", rq, v.ret,
                                      c.calls \o v.calls)
    /\ recvsize' = 0
    /\ UNCHANGED << phase, regvars, drv_data, flags, excl_lock >>

(***************************************************************************)
(* Lock Coordinator                                                        *)
(***************************************************************************)
\* mutant: every failed lock attempt tears the connection down
LockResult_TeardownAlways(c, rc) ==
    LET lk == Call("ct_card_lock", c.h, 0, 0, 0, rc)
    IN  IF rc < 0
        THEN [h |-> NULL, live |-> c.live \ {c.h}, excl_lock |-> excl_lock,
              ret |-> IF rc = IFD_ERROR_NOT_CONNECTED
                      THEN SC_ERROR_READER_DETACHED ELSE openct_error(rc),
              calls |-> << lk, ct_reader_disconnect(c.h) >>]
        ELSE [h |-> c.h, live |-> c.live, excl_lock |-> c.h,
              ret |-> openct_error(rc),
              calls |-> << lk >>]

\* what openct_reader_lock does with ct_card_lock's answer rc on the
\* connection c the hotplug check left.  A lock handle is modelled by the
\* connection it was obtained on.
LockResult(c, rc) ==
    LET lk == Call("ct_card_lock", c.h, 0, 0, 0, rc)
    IN  IF rc = IFD_ERROR_NOT_CONNECTED
        THEN [h |-> NULL, live |-> c.live \ {c.h}, excl_lock |-> excl_lock,
              ret |-> SC_ERROR_READER_DETACHED,
              calls |-> << lk, ct_reader_disconnect(c.h) >>]
        ELSE [h |-> c.h, live |-> c.live,
              excl_lock |-> IF rc >= 0 THEN c.h ELSE excl_lock,
              ret |-> openct_error(rc),
              calls |-> << lk >>]

\* openct_reader_lock
Lock ==
    /\ InUse
    /\ \E conn_ok \in HotplugConnect :
       \E req_rc \in HotplugRequest(conn_ok) :
         LET c == openct_reader_reconnect(conn_ok, req_rc)
         IN  IF c.ret < 0
             THEN /\ h' = c.h
                  /\ nextHandle' = c.nextHandle
                  /\ live' = c.live
                  /\ atr_len' = c.atr_len
                  /\ excl_lock' = excl_lock
                  /\ Returns("lock", NoReq, c.ret, c.calls)
             ELSE \E rc \in LockAnswers :
                    LET l == LockResult(c, rc)
                    IN  /\ h' = l.h
                        /\ nextHandle' = c.nextHandle
                        /\ live' = l.live
                        /\ atr_len' = c.atr_len
                        /\ excl_lock' = l.excl_lock
                        /\ Returns("lock", NoReq, l.ret, c.calls \o l.calls)
    /\ recvsize' = 0
    /\ sw' = NoSw
    /\ UNCHANGED << phase, regvars, drv_data, flags >>

\* mutant: unlock reports "not connected" like any other failure
UnlockResult_Strict(rc) == openct_error(rc)

\* the return value of openct_reader_unlock for ct_card_unlock's answer rc
UnlockResult(rc) ==
    IF rc = IFD_ERROR_NOT_CONNECTED THEN 0 ELSE openct_error(rc)

\* openct_reader_unlock: the stored handle and the stored lock handle go to
\* the transport as they are
Unlock ==
    /\ InUse
    /\ \E rc \in LockAnswers :
         Returns("unlock", NoReq, UnlockResult(rc),
                 << Call("ct_card_unlock", h, excl_lock, 0, 0, rc) >>)
    /\ recvsize' = 0
    /\ sw' = NoSw
    /\ UNCHANGED << phase, regvars, drv_data, connvars, slotvars >>

(***************************************************************************)
(* Driver teardown                                                         *)
(***************************************************************************)
\* openct_reader_release: closes the handle and frees the private data, if
\* the reader still has it
Release ==
    /\ phase = "ready"
    /\ FirstReader \in DOMAIN registry
    /\ drv_data' = FALSE
    /\ h' = IF drv_data THEN NULL ELSE h
    /\ live' = IF drv_data /\ h # NULL THEN live \ {h} ELSE live
    /\ Returns("release", NoReq, SC_NO_ERROR,
               IF drv_data /\ h # NULL
               THEN << ct_reader_disconnect(h) >> ELSE << >>)
    /\ recvsize' = 0
    /\ sw' = NoSw
    /\ UNCHANGED << phase, regvars, nextHandle, slotvars >>

\* openct_reader_finish: called when the driver is unloaded, after the
\* readers were released
Finish ==
    /\ phase = "ready"
    /\ ~drv_data
    /\ phase' = "finished"
    /\ Returns("finish", NoReq, SC_NO_ERROR, << >>)
    /\ recvsize' = 0
    /\ sw' = NoSw
    /\ UNCHANGED << regvars, drv_data, connvars, slotvars >>

Init ==
    /\ phase = "loaded"
    /\ ct_info = << >>
    /\ add_rc = << >>
    /\ registry = << >>
    /\ drv_data = FALSE
    /\ h = NULL
    /\ nextHandle = 0
    /\ live = {}
    /\ flags = 0
    /\ atr_len = 0
    /\ excl_lock = 0
    /\ op = "none"
    /\ req = NoReq
    /\ ret = 0
    /\ calls = << >>
    /\ recvsize = 0
    /\ sw = NoSw

\* enumeration against every daemon table and every allocator behaviour
InitAnyDaemon ==
    /\ phase = "loaded"
    /\ \E infos \in DaemonTables, allocs \in [Indices -> AllocSet] :
           openct_reader_init(infos, allocs)

NextRegistry == InitAnyDaemon

SpecRegistry == Init /\ [][NextRegistry]_vars

\* enumeration with the daemon and the allocator varying for the first reader
InitReaders ==
    /\ phase = "loaded"
    /\ \E infos \in ProbeTables, allocs \in ProbeAllocs :
           openct_reader_init(infos, allocs)

Next ==
    \/ InitReaders
    \/ Connect
    \/ Disconnect
    \/ DetectPresence
    \/ Transmit
    \/ PerformVerify
    \/ Lock
    \/ Unlock
    \/ Release
    \/ Finish

Spec == Init /\ [][Next]_vars

(***************************************************************************)
(* Properties                                                              *)
(***************************************************************************)
\* the calls of primitive fn the last operation made
CallsOf(fn) == { i \in 1 .. Len(calls) : calls[i].fn = fn }
CallsOfNext(fn) == { i \in 1 .. Len(calls') : calls'[i].fn = fn }

\* the last operation was perform_verify with a template whose data field
\* does not fit the frame
OversizedVerify ==
    op = "perform_verify" /\ req.hasApdu /\ 4 + 1 + req.lc > sizeof_buf

\* C1 as claimed: in every reader state, perform_verify with a data field of
\* size d, 4 + 1 + d > 254, returns BufferTooSmall and makes no transport
\* call.
C1_AsClaimed ==
    OversizedVerify => ret = SC_ERROR_BUFFER_TOO_SMALL /\ calls = << >>

\* C1 amended: perform_verify with an oversized data field, called while
\* the handle is live, returns BufferTooSmall, makes no transport call and
\* leaves the handle alone; called on an unconnected reader it runs the
\* hotplug check first and returns ReaderDetached or ReaderReattached after
\* the connect attempt, without any ct_card_verify.
C1_OversizedTemplate ==
    [][ OversizedVerify' =>
          IF h # NULL
          THEN /\ ret' = SC_ERROR_BUFFER_TOO_SMALL
               /\ calls' = << >>
               /\ h' = h
          ELSE /\ ret' \in {SC_ERROR_READER_DETACHED, SC_ERROR_READER_REATTACHED}
               /\ CallsOfNext("ct_reader_connect") = {1}
               /\ CallsOfNext("ct_card_verify") = {}
      ]_vars

C1_Witness ==
    /\ OversizedVerify
    /\ ret = SC_ERROR_BUFFER_TOO_SMALL
    /\ calls = << >>
    /\ h # NULL

\* C2 as claimed: transmit never reports a received length above the
\* caller's capacity; when ct_card_transact returns more than the capacity
\* transmit fails with an error.
C2_RecvWithinCapacity ==
    op = "transmit" =>
        /\ ret >= 0 => recvsize <= req.recv_capacity
        /\ \A i \in CallsOf("ct_card_transact") :
               calls[i].rc > req.recv_capacity => ret < 0

\* the last operation went through the hotplug check
HotplugOps == {"transmit", "perform_verify", "lock"}

\* the connect attempt recorded at the head of cs succeeded: the transport
\* handed out a handle and the card request returned data
ConnectSucceeded(cs) ==
    /\ Len(cs) >= 2
    /\ cs[1].fn = "ct_reader_connect" /\ cs[1].rc # NULL
    /\ cs[2].fn = "ct_card_request" /\ cs[2].rc > 0

\* C3: the hotplug check on a live handle returns "no action", makes no
\* transport call and leaves the handle unchanged (the operation goes on to
\* its own primitive on that handle); on an unconnected handle it returns
\* ReaderReattached when the connect succeeded and ReaderDetached when it
\* failed, never plain success or another code.
C3_ReconnectIfNeeded ==
    [][ op' \in HotplugOps =>
          IF h # NULL
          THEN /\ CallsOfNext("ct_reader_connect") = {}
               /\ CallsOfNext("ct_card_request") = {}
               /\ ret' # SC_ERROR_READER_REATTACHED
               /\ calls' # << >> =>
                     /\ calls'[1].fn \in {"ct_card_transact", "ct_card_verify",
                                          "ct_card_lock"}
                     /\ calls'[1].h = h
          ELSE /\ calls' # << >>
               /\ calls'[1].fn = "ct_reader_connect"
               /\ IF ConnectSucceeded(calls')
                  THEN ret' = SC_ERROR_READER_REATTACHED
                  ELSE ret' = SC_ERROR_READER_DETACHED
      ]_vars

C3_Witness ==
    /\ op = "lock"
    /\ ret = SC_ERROR_READER_REATTACHED
    /\ ConnectSucceeded(calls)
    /\ h # NULL

\* C4: when transmit runs on a connected reader and ct_card_transact answers
\* "not connected", transmit closes the handle, returns ReaderDetached and
\* the stored handle is unconnected afterwards.
C4_TransmitTeardown ==
    op = "transmit" =>
        \A i \in CallsOf("ct_card_transact") :
            calls[i].rc = IFD_ERROR_NOT_CONNECTED =>
                /\ ret = SC_ERROR_READER_DETACHED
                /\ h = NULL
                /\ calls[i].h # NULL
                /\ calls[i].h \notin live
                /\ i < Len(calls)
                /\ calls[i + 1] = ct_reader_disconnect(calls[i].h)

C4_Witness ==
    /\ op = "transmit"
    /\ \E i \in CallsOf("ct_card_transact") :
           calls[i].rc = IFD_ERROR_NOT_CONNECTED
    /\ ret = SC_ERROR_READER_DETACHED
    /\ h = NULL

\* C5: unlock returns success whenever ct_card_unlock answers "not
\* connected", in every reader state, also after the connection was torn down.
C5_UnlockNotConnected ==
    op = "unlock" =>
        \A i \in CallsOf("ct_card_unlock") :
            calls[i].rc = IFD_ERROR_NOT_CONNECTED => ret = SC_NO_ERROR

C5_Witness ==
    /\ op = "unlock"
    /\ calls # << >>
    /\ calls[1].fn = "ct_card_unlock"
    /\ calls[1].rc = IFD_ERROR_NOT_CONNECTED
    /\ ret = SC_NO_ERROR
    /\ h = NULL
    /\ nextHandle > 0

\* the last operation was perform_verify with a PIN encoding other than
\* ASCII and BCD
UnsupportedVerify ==
    /\ op = "perform_verify"
    /\ req.encoding # SC_PIN_ENCODING_ASCII
    /\ req.encoding # SC_PIN_ENCODING_BCD

\* C6 as claimed: in every reader state, perform_verify with a PIN encoding
\* other than ASCII or BCD returns InvalidArguments and makes no transport
\* call.
C6_AsClaimed ==
    UnsupportedVerify => ret = SC_ERROR_INVALID_ARGUMENTS /\ calls = << >>

\* C6 amended: perform_verify with an unsupported PIN encoding, called while
\* the handle is live, makes no transport call and returns InvalidArguments,
\* or BufferTooSmall when the template's data field does not fit the frame;
\* called on an unconnected reader it runs the hotplug check first and
\* returns ReaderDetached or ReaderReattached, without any ct_card_verify.
C6_UnsupportedEncoding ==
    [][ UnsupportedVerify' =>
          IF h # NULL
          THEN /\ calls' = << >>
               /\ h' = h
               /\ IF req'.hasApdu /\ 4 + 1 + req'.lc > sizeof_buf
                  THEN ret' = SC_ERROR_BUFFER_TOO_SMALL
                  ELSE ret' = SC_ERROR_INVALID_ARGUMENTS
          ELSE /\ ret' \in {SC_ERROR_READER_DETACHED, SC_ERROR_READER_REATTACHED}
               /\ CallsOfNext("ct_reader_connect") = {1}
               /\ CallsOfNext("ct_card_verify") = {}
      ]_vars

C6_Witness ==
    /\ UnsupportedVerify
    /\ req.hasApdu
    /\ ret = SC_ERROR_INVALID_ARGUMENTS
    /\ calls = << >>
    /\ h # NULL

\* the indices for which the daemon reported no reader metadata at init
NoMetadata == Indices \ DOMAIN ct_info

IsPlaceholder(r) == r.slot_count = 1 /\ r.capabilities = 0

\* C7 as claimed: after init every index below the pre-allocation count
\* without daemon metadata has a placeholder reader with exactly one slot and
\* no capabilities in the registry; an index at or above the count without
\* metadata has no reader.
C7_AsClaimed ==
    phase # "loaded" =>
        \A i \in NoMetadata :
            IF i < 5
            THEN i \in DOMAIN registry /\ IsPlaceholder(registry[i])
            ELSE i \notin DOMAIN registry

\* C7 amended: after init, for every index below the pre-allocation count
\* without daemon metadata, openct_add_reader was called, the registry holds
\* a reader for the index exactly when that call succeeded (it fails when an
\* allocation or the registration with the context fails), and the reader it
\* holds is a placeholder with exactly one slot and no capabilities; for an
\* index at or above the count without metadata no reader is created.
C7_Placeholders ==
    phase # "loaded" =>
        \A i \in NoMetadata :
            IF i < 5
            THEN /\ i \in DOMAIN add_rc
                 /\ i \in DOMAIN registry <=> add_rc[i] = 0
                 /\ i \in DOMAIN registry => IsPlaceholder(registry[i])
            ELSE /\ i \notin DOMAIN registry
                 /\ i \notin DOMAIN add_rc

C7_Witness ==
    /\ phase # "loaded"
    /\ \E i \in NoMetadata, j \in NoMetadata, k \in NoMetadata :
        /\ i < 5 /\ i \in DOMAIN registry /\ IsPlaceholder(registry[i])
        /\ j < 5 /\ j \notin DOMAIN registry /\ add_rc[j] < 0
        /\ k >= 5 /\ k \notin DOMAIN registry

\* C8: on a connected reader, when ct_card_transact returns n bytes with
\* 0 <= n <= recv_capacity, transmit reports no error and sets the caller's
\* received length to exactly n.
C8_TransmitLength ==
    op = "transmit" =>
        \A i \in CallsOf("ct_card_transact") :
            (0 <= calls[i].rc /\ calls[i].rc <= req.recv_capacity) =>
                ret >= 0 /\ recvsize = calls[i].rc

C8_Witness ==
    /\ op = "transmit"
    /\ req.recv_capacity = 1
    /\ Len(calls) = 1
    /\ calls[1].fn = "ct_card_transact"
    /\ calls[1].rc = 1
    /\ ret >= 0
    /\ recvsize = 1

\* C9: after any sequence of operations the reader has at most one live
\* transport handle and that handle is the stored one; connect on an
\* already-connected reader closes the old handle before it opens a new one.
C9_OneLiveHandle ==
    [][ /\ live' \subseteq {h'} \ {NULL}
        /\ (op' = "connect" /\ h # NULL) =>
               /\ Len(calls') >= 2
               /\ calls'[1] = ct_reader_disconnect(h)
               /\ calls'[2].fn = "ct_reader_connect"
               /\ h \notin live'
      ]_vars

C9_Witness ==
    /\ op = "connect"
    /\ Len(calls) = 3
    /\ calls[1].fn = "ct_reader_disconnect"
    /\ calls[1].h = 1
    /\ h = 2
    /\ live = {2}

\* the stored exclusive-lock handle is absent (lock never succeeded) or stale
\* (obtained on a connection since torn down or replaced)
StaleOrAbsentLock == excl_lock = 0 \/ excl_lock # h

\* C10 as claimed: unlock on a slot whose stored exclusive-lock handle is
\* stale or absent returns success, never an error, whatever the transport
\* answers.
C10_StaleUnlockSucceeds ==
    (op = "unlock" /\ StaleOrAbsentLock) => ret >= 0

\* the primitive each card-touching operation forwards its request to
OwnPrimitive(o) ==
    IF o = "transmit" THEN "ct_card_transact"
    ELSE IF o = "perform_verify" THEN "ct_card_verify"
    ELSE "ct_card_lock"

\* C11: transmit, perform_verify and lock invoked while the handle is
\* unconnected return ReaderDetached or ReaderReattached and do not forward
\* their own request in that call; a forwarded request is always made by a
\* call that found the handle live.
C11_FirstCallSurfacesDetach ==
    [][ op' \in HotplugOps =>
          /\ h = NULL =>
                /\ ret' \in {SC_ERROR_READER_DETACHED, SC_ERROR_READER_REATTACHED}
                /\ CallsOfNext("ct_card_transact") = {}
                /\ CallsOfNext("ct_card_verify") = {}
                /\ CallsOfNext("ct_card_lock") = {}
          /\ CallsOfNext(OwnPrimitive(op')) # {} =>
                /\ h # NULL
                /\ \A i \in CallsOfNext(OwnPrimitive(op')) : calls'[i].h = h
      ]_vars

\* a transmit that re-linked the reader and did not send its request
C11_Witness ==
    /\ op = "transmit"
    /\ ret = SC_ERROR_READER_REATTACHED
    /\ ConnectSucceeded(calls)
    /\ CallsOf("ct_card_transact") = {}
    /\ h # NULL

\* C12 as claimed: whenever the transport answers "not connected" to the
\* primitive of transmit, perform_verify or lock, the handle is torn down in
\* that call (closed and cleared), so the next card-touching operation
\* attempts a fresh connect.
C12_TeardownOnNotConnected ==
    op \in HotplugOps =>
        \A i \in CallsOf(OwnPrimitive(op)) :
            calls[i].rc = IFD_ERROR_NOT_CONNECTED =>
                h = NULL /\ calls[i].h \notin live


\* C13: disconnect always returns success and leaves the stored handle
\* unconnected, closing the handle it found; on an already unconnected
\* reader it makes no transport call and changes nothing of the reader.
C13_DisconnectIdempotent ==
    [][ op' = "disconnect" =>
          /\ ret' = SC_NO_ERROR
          /\ h' = NULL
          /\ h # NULL => /\ calls' = << ct_reader_disconnect(h) >>
                         /\ live' = live \ {h}
          /\ h = NULL => /\ calls' = << >>
                         /\ UNCHANGED << connvars, slotvars, drv_data, phase,
                                         regvars >>
      ]_vars

\* a disconnect that found nothing to close, on a reader that had been
\* given a handle before
C13_Witness ==
    /\ op = "disconnect"
    /\ ret = SC_NO_ERROR
    /\ calls = << >>
    /\ h = NULL
    /\ nextHandle > 0

\* the ct_reader_connect and ct_card_request answers of the step just taken
RefusedNext == \E i \in CallsOfNext("ct_reader_connect") : calls'[i].rc = NULL
RequestRcNext == { calls'[i].rc : i \in CallsOfNext("ct_card_request") }

\* C14: connect returns CardNotPresent when the transport refuses a handle
\* or the card request is negative, ReaderError when the card request
\* returns zero bytes, and success with the ATR length set to n exactly when
\* the card request returns n > 0; a failing connect leaves the ATR length
\* unchanged.
C14_ConnectOutcomes ==
    [][ op' = "connect" =>
          /\ RefusedNext => /\ ret' = SC_ERROR_CARD_NOT_PRESENT
                            /\ RequestRcNext = {}
          /\ ~RefusedNext => Cardinality(RequestRcNext) = 1
          /\ \A n \in RequestRcNext :
                /\ n < 0 => ret' = SC_ERROR_CARD_NOT_PRESENT
                /\ n = 0 => ret' = SC_ERROR_READER
                /\ n > 0 => ret' = SC_NO_ERROR /\ atr_len' = n
          /\ ret' = SC_NO_ERROR => \E n \in RequestRcNext : n > 0
          /\ ret' # SC_NO_ERROR => atr_len' = atr_len
      ]_vars

\* a connect whose card request returned no bytes, after an earlier connect
\* had stored an ATR
C14_Witness ==
    /\ op = "connect"
    /\ ret = SC_ERROR_READER
    /\ \E i \in CallsOf("ct_card_request") : calls[i].rc = 0
    /\ atr_len > 0


\* the step just taken got "not connected" from the primitive of its
\* operation
NotConnectedNext ==
    /\ op' \in HotplugOps
    /\ \E i \in CallsOfNext(OwnPrimitive(op')) :
          calls'[i].rc = IFD_ERROR_NOT_CONNECTED

\* C15 as claimed: the stored handle is changed only by connect (directly or
\* through the hotplug check), by disconnect and by the not-connected
\* teardown inside transmit, perform_verify and lock; detect_presence and
\* unlock leave it unchanged.
C15_AsClaimed ==
    [][ /\ h' # h => \/ op' \in {"connect", "disconnect"}
                     \/ op' \in HotplugOps /\ h = NULL
                     \/ NotConnectedNext /\ h' = NULL
        /\ op' \in {"detect_presence", "unlock"} => h' = h
      ]_vars

\* C15, amended: besides connect, the hotplug check, disconnect and the
\* not-connected teardown, the stored handle is changed by detect_presence
\* on an unconnected reader, which stores the handle the transport gives it,
\* and by release, which closes and drops it; unlock, detect_presence on a
\* connected reader, init and finish leave it unchanged.
C15_HandleFrame ==
    [][ /\ h' # h =>
             \/ op' \in {"connect", "disconnect", "release"}
             \/ op' \in HotplugOps /\ h = NULL
             \/ NotConnectedNext /\ h' = NULL
             \/ /\ op' = "detect_presence"
                /\ h = NULL
                /\ \E i \in CallsOfNext("ct_reader_connect") :
                      calls'[i].rc = h'
        /\ op' \in {"unlock", "init", "finish"} => h' = h
        /\ op' = "detect_presence" /\ h # NULL => h' = h
      ]_vars

\* detect_presence on an unconnected reader left a handle stored
C15_Witness ==
    /\ op = "detect_presence"
    /\ h # NULL
    /\ \E i \in CallsOf("ct_reader_connect") : calls[i].rc = h


\* the operations of the reader that the claims on error values cover
PublicOps ==
    {"detect_presence", "connect", "disconnect", "transmit",
     "perform_verify", "lock", "unlock"}

\* the error kinds of the driver's taxonomy
Taxonomy ==
    {SC_ERROR_OUT_OF_MEMORY, SC_ERROR_CARD_NOT_PRESENT, SC_ERROR_READER,
     SC_ERROR_READER_DETACHED, SC_ERROR_READER_REATTACHED,
     SC_ERROR_INVALID_ARGUMENTS, SC_ERROR_BUFFER_TOO_SMALL,
     SC_ERROR_UNKNOWN_DATA_RECEIVED, SC_ERROR_KEYPAD_TIMEOUT,
     SC_ERROR_KEYPAD_CANCELLED}

\* C16 as claimed: every error (negative value) a public operation returns
\* is one of the ten kinds of the taxonomy.
C16_AsClaimed ==
    op \in PublicOps /\ ret < 0 => ret \in Taxonomy

\* C16, amended: every error a public operation returns is one of the ten
\* kinds of the taxonomy or the transmission failure, and the transmission
\* failure is returned by detect_presence only, exactly for a negative
\* card_status answer; no raw transport status reaches the caller.
C16_ClosedTaxonomy ==
    op \in PublicOps /\ ret < 0 =>
        /\ ret \in Taxonomy \cup {SC_ERROR_TRANSMIT_FAILED}
        /\ ret \notin NegAnswers
        /\ ret = SC_ERROR_TRANSMIT_FAILED <=>
              /\ op = "detect_presence"
              /\ \E i \in CallsOf("ct_card_status") : calls[i].rc < 0

\* a status query that failed with a generic transport status
C16_Witness ==
    /\ op = "detect_presence"
    /\ ret = SC_ERROR_TRANSMIT_FAILED
    /\ \E i \in CallsOf("ct_card_status") : calls[i].rc = IFD_ERROR_GENERIC


\* C17: perform_verify returns success with the two returned bytes in
\* SW1/SW2 exactly when card_verify returns 2; any other non-negative length
\* gives UnexpectedDataReceived, a negative result gives its translation
\* (user-timeout to KeypadTimeout, user-abort to KeypadCancelled, anything
\* else to ReaderError); in both failing cases SW1/SW2 are not written.
C17_VerifyResponse ==
    op = "perform_verify" =>
        /\ \A i \in CallsOf("ct_card_verify") :
              LET rc == calls[i].rc
              IN  /\ rc = 2 => ret = SC_NO_ERROR /\ sw \in SwSet
                  /\ rc >= 0 /\ rc # 2 =>
                        ret = SC_ERROR_UNKNOWN_DATA_RECEIVED /\ sw = NoSw
                  /\ rc = IFD_ERROR_USER_TIMEOUT =>
                        ret = SC_ERROR_KEYPAD_TIMEOUT /\ sw = NoSw
                  /\ rc = IFD_ERROR_USER_ABORT =>
                        ret = SC_ERROR_KEYPAD_CANCELLED /\ sw = NoSw
                  /\ rc < 0 /\ rc \notin {IFD_ERROR_USER_TIMEOUT,
                                           IFD_ERROR_USER_ABORT} =>
                        ret = SC_ERROR_READER /\ sw = NoSw
        /\ ret = SC_NO_ERROR =>
              \E i \in CallsOf("ct_card_verify") : calls[i].rc = 2
        /\ sw # NoSw => ret = SC_NO_ERROR

\* a verify whose transport answer was three bytes long
C17_Witness ==
    /\ op = "perform_verify"
    /\ \E i \in CallsOf("ct_card_verify") : calls[i].rc = 3
    /\ ret = SC_ERROR_UNKNOWN_DATA_RECEIVED

\* the status word ct_card_status stored has the "present" bit
HasPresentBit(status) == (status \div IFD_CARD_PRESENT) % 2 = 1

\* C18: detect_presence on an unconnected reader whose connection attempt
\* fails returns 0 with the presence flag cleared and the handle still
\* unconnected; a negative card_status result gives a transmission failure
\* with the flag cleared; otherwise the flag is set if and only if the
\* status has the "present" bit, whatever the "changed" bit is.
C18_DetectPresence ==
    op = "detect_presence" =>
        /\ (\E i \in CallsOf("ct_reader_connect") : calls[i].rc = NULL) =>
              /\ ret = 0
              /\ flags = 0
              /\ h = NULL
              /\ CallsOf("ct_card_status") = {}
        /\ \A i \in CallsOf("ct_card_status") :
              /\ calls[i].rc < 0 =>
                    ret = SC_ERROR_TRANSMIT_FAILED /\ flags = 0
              /\ calls[i].rc >= 0 =>
                    /\ flags = SC_SLOT_CARD_PRESENT <=>
                          HasPresentBit(calls[i].len)
                    /\ flags \in {0, SC_SLOT_CARD_PRESENT}
                    /\ ret = flags

\* a status with the "changed" bit only: no card is reported
C18_Witness ==
    /\ op = "detect_presence"
    /\ \E i \in CallsOf("ct_card_status") :
          calls[i].rc >= 0 /\ calls[i].len = IFD_CARD_STATUS_CHANGED
    /\ flags = 0
    /\ ret = 0

\* C19: every card_verify call carries a frame of length 4 when the
\* template has no data field and 5 + d when its data field has size d, and
\* that length never exceeds the 254 bytes of the frame buffer.
C19_VerifyFrameLength ==
    \A i \in CallsOf("ct_card_verify") :
        /\ op = "perform_verify"
        /\ calls[i].len = IF req.lc = 0 THEN 4 ELSE 5 + req.lc
        /\ calls[i].len <= sizeof_buf

\* a verify whose frame fills the buffer to its last byte
C19_Witness ==
    /\ op = "perform_verify"
    /\ \E i \in CallsOf("ct_card_verify") : calls[i].len = sizeof_buf
    /\ req.lc = sizeof_buf - 5


\* C20 as claimed: whenever transmit, perform_verify or lock (through the
\* hotplug check or on their own) return ReaderDetached, the stored handle
\* is unconnected afterwards.
C20_DetachedMeansUnconnected ==
    op \in HotplugOps /\ ret = SC_ERROR_READER_DETACHED => h = NULL

=============================================================================
